---- MODULE Spec2Model ----
(***************************************************************************)
(* Model of the market streaming system: the analyzer                      *)
(* (analyze_and_report.py: statistics, report rendering, one-shot run and   *)
(* watch loop) and the report watcher (ai_watch_report.py).                 *)
(*                                                                          *)
(* Numbers.  pandas/numpy compute in IEEE doubles.  The model carries the   *)
(* exact rational value of every finite result plus the three special       *)
(* values NaN, +inf and -inf, which is what numpy yields on a division by   *)
(* zero (a RuntimeWarning, never an exception).  Rounding is not modelled.  *)
(***************************************************************************)
EXTENDS Integers, Sequences, FiniteSets, TLC

\* ------------------------------------------------------------------ bounds
MaxRows == 2          \* rows of the CSV handed to a one-shot run
MaxFileRows == 3      \* rows the CSV can reach while it is being watched
Epoch == 60           \* time.time() at process start (any value >= 60)
MaxClock == 125       \* the clock stops advancing here
MaxGrowths == 2       \* the growth counter saturates here

\* ------------------------------------------------------------------ inputs
Missing == -1                          \* an empty price cell (NaN after read_csv)
Prices == {0, 99, 100, 101}
Timestamps == {1, 2}
Symbols == <<"A", "B">>
ColumnSets == {SubSeq(Symbols, 1, k) : k \in 0..Len(Symbols)}

Range(s) == {s[i] : i \in 1..Len(s)}

RowSet(cols) == [timestamp : Timestamps, price : [Range(cols) -> Prices \cup {Missing}]]

\* ------------------------------------------------------------ float values
RECURSIVE GCD(_, _)
GCD(a, b) == IF b = 0 THEN a ELSE GCD(b, a % b)

Abs(x) == IF x < 0 THEN -x ELSE x

NaN == [kind |-> "nan", n |-> 0, d |-> 1]
PosInf == [kind |-> "inf", n |-> 0, d |-> 1]
NegInf == [kind |-> "-inf", n |-> 0, d |-> 1]

\* the finite value n/d (d # 0), in lowest terms with a positive denominator
Fin(n, d) ==
    LET g == GCD(Abs(n), Abs(d))
        s == IF d < 0 THEN -1 ELSE 1
    IN [kind |-> "fin", n |-> s * (n \div g), d |-> s * (d \div g)]

IsFin(x) == x.kind = "fin"

\* numpy float64 true division: x / 0 is nan for x = 0, +-inf otherwise
FDiv(x, y) ==
    IF x.kind = "nan" \/ y.kind = "nan" THEN NaN
    ELSE IF IsFin(x) /\ IsFin(y) THEN
        IF y.n = 0 THEN (IF x.n = 0 THEN NaN ELSE IF x.n > 0 THEN PosInf ELSE NegInf)
        ELSE Fin(x.n * y.d, x.d * y.n)
    ELSE IF IsFin(y) THEN
        (IF (x.kind = "inf") = (y.n >= 0) THEN PosInf ELSE NegInf)
    ELSE IF IsFin(x) THEN Fin(0, 1)
    ELSE NaN

\* x * k for a positive integer k
FScale(x, k) == IF IsFin(x) THEN Fin(x.n * k, x.d) ELSE x

FAdd(x, y) ==
    IF x.kind = "nan" \/ y.kind = "nan" THEN NaN
    ELSE IF IsFin(x) /\ IsFin(y) THEN Fin(x.n * y.d + y.n * x.d, x.d * y.d)
    ELSE IF IsFin(x) THEN y
    ELSE IF IsFin(y) THEN x
    ELSE IF x.kind = y.kind THEN x ELSE NaN

\* a/b < c/d for b, d > 0, by continued fractions (no cross products)
RECURSIVE RatLess(_, _, _, _)
RatLess(a, b, c, d) ==
    LET q1 == a \div b
        q2 == c \div d
        r1 == a % b
        r2 == c % d
    IN IF q1 # q2 THEN q1 < q2
       ELSE IF r2 = 0 THEN FALSE
       ELSE IF r1 = 0 THEN TRUE
       ELSE RatLess(d, r2, b, r1)

\* IEEE ordering: every comparison with nan is false
FLess(x, y) ==
    IF x.kind = "nan" \/ y.kind = "nan" THEN FALSE
    ELSE IF x.kind = "-inf" THEN y.kind # "-inf"
    ELSE IF x.kind = "inf" THEN FALSE
    ELSE IF y.kind = "inf" THEN TRUE
    ELSE IF y.kind = "-inf" THEN FALSE
    ELSE RatLess(x.n, x.d, y.n, y.d)

FGreater(x, y) == FLess(y, x)

\* -------------------------------------------------------------- the table
\* df[col].dropna(): the non-missing values of one column, in row (file) order
RECURSIVE dropna(_, _)
dropna(rows, t) ==
    IF rows = <<>> THEN <<>>
    ELSE LET rest == dropna(Tail(rows), t)
         IN IF Head(rows).price[t] = Missing THEN rest
            ELSE <<Head(rows).price[t]>> \o rest

RECURSIVE SeqSum(_)
SeqSum(s) == IF s = <<>> THEN 0 ELSE Head(s) + SeqSum(Tail(s))

RECURSIVE SeqSumSq(_)
SeqSumSq(s) == IF s = <<>> THEN 0 ELSE Head(s) * Head(s) + SeqSumSq(Tail(s))

SeqMin(s) == CHOOSE x \in Range(s) : \A y \in Range(s) : x <= y
SeqMax(s) == CHOOSE x \in Range(s) : \A y \in Range(s) : x >= y

\* Series.median(): middle of the sorted values, mean of the two middles
Median(s) ==
    LET o == SortSeq(s, <)
        n == Len(s)
    IN IF n % 2 = 1 THEN Fin(o[(n + 1) \div 2], 1)
       ELSE Fin(o[n \div 2] + o[n \div 2 + 1], 2)

\* Series.std() squared: the sample variance (ddof = 1), nan for one value
Variance(s) ==
    LET n == Len(s)
    IN IF n < 2 THEN NaN
       ELSE Fin(n * SeqSumSq(s) - SeqSum(s) * SeqSum(s), n * (n - 1))

\* (std / mean) * 100.  std is a square root, so the model carries the
\* square of std / mean: the value is 100 * sqrt(n / d).  Prices are never
\* negative, so the squares order as the values do.
Volatility(s) ==
    LET v == Variance(s)
        m == Fin(SeqSum(s), Len(s))
    IN IF v.kind = "nan" THEN NaN
       ELSE IF m.n = 0 THEN (IF v.n = 0 THEN NaN ELSE PosInf)
       ELSE FDiv(v, Fin(m.n * m.n, m.d * m.d))

\* ((last - first) / first) * 100
PctChange(s) == FScale(FDiv(Fin(s[Len(s)] - s[1], 1), Fin(s[1], 1)), 100)

\* the stats entry of one non-empty series
SymbolStats(s) ==
    [current |-> s[Len(s)],
     mean |-> Fin(SeqSum(s), Len(s)),
     median |-> Median(s),
     min |-> SeqMin(s),
     max |-> SeqMax(s),
     var |-> Variance(s),
     total_change |-> s[Len(s)] - s[1],
     pct_change |-> PctChange(s),
     volatility |-> Volatility(s),
     data_points |-> Len(s)]

\* if len(prices) > 0
HasData(s) == Len(s) > 0

\* the stats dict: one entry per ticker whose series is non-empty
ComputeStats(cols, rows) ==
    [t \in {c \in Range(cols) : HasData(dropna(rows, c))} |-> SymbolStats(dropna(rows, t))]

\* price_df = df[price_cols].dropna(): the rows with every price present
CompleteRows(cols, rows) ==
    SelectSeq(rows, LAMBDA r : \A c \in Range(cols) : r.price[c] # Missing)

RECURSIVE SeqSumProd(_, _)
SeqSumProd(s, u) ==
    IF s = <<>> THEN 0 ELSE Head(s) * Head(u) + SeqSumProd(Tail(s), Tail(u))

\* Pearson correlation of two equally long series: cov / sqrt(vx * vy) with
\* cov = n*Sxy - Sx*Sy, vx = n*Sxx - Sx*Sx, vy = n*Syy - Sy*Sy; nan when a
\* series is constant
Pearson(x, y) ==
    LET n == Len(x)
        cov == n * SeqSumProd(x, y) - SeqSum(x) * SeqSum(y)
        vx == n * SeqSumSq(x) - SeqSum(x) * SeqSum(x)
        vy == n * SeqSumSq(y) - SeqSum(y) * SeqSum(y)
    IN IF vx = 0 \/ vy = 0 THEN [kind |-> "nan", cov |-> 0, vx |-> 0, vy |-> 0]
       ELSE [kind |-> "fin", cov |-> cov, vx |-> vx, vy |-> vy]

\* a mutation of EnoughRows: one complete row is taken to be enough
EnoughRows_one(price_df) == Len(price_df) > 0

\* len(price_df) > 1
EnoughRows(price_df) == Len(price_df) > 1

\* correlations = price_df.corr() if len(price_df) > 1 else None
ComputeCorrelations(cols, rows) ==
    LET price_df == CompleteRows(cols, rows)
    IN IF EnoughRows(price_df)
       THEN [is_none |-> FALSE,
             used |-> price_df,
             matrix |-> [p \in Range(cols) \X Range(cols) |->
                            Pearson(dropna(price_df, p[1]), dropna(price_df, p[2]))]]
       ELSE [is_none |-> TRUE, used |-> <<>>, matrix |-> <<>>]

\* what analyze_data returns for a parsed file
analyze_data(cols, rows) ==
    [df |-> rows,
     stats |-> ComputeStats(cols, rows),
     correlations |-> ComputeCorrelations(cols, rows),
     tickers |-> cols]

\* ------------------------------------------------------------- the report
\* Python's max(iterable, key=...): the first item is kept until a later
\* one compares strictly greater
RECURSIVE PyArgMax(_, _, _)
PyArgMax(keys, i, best) ==
    IF i > Len(keys) THEN best
    ELSE PyArgMax(keys, i + 1, IF FGreater(keys[i], keys[best]) THEN i ELSE best)

\* Python's min(iterable, key=...)
RECURSIVE PyArgMin(_, _, _)
PyArgMin(keys, i, best) ==
    IF i > Len(keys) THEN best
    ELSE PyArgMin(keys, i + 1, IF FLess(keys[i], keys[best]) THEN i ELSE best)

\* stats.items(): a dict iterates in insertion order, the ticker order
StatsItems(stats, tickers) == SelectSeq(tickers, LAMBDA t : t \in DOMAIN stats)

RECURSIVE FSum(_)
FSum(s) == IF s = <<>> THEN Fin(0, 1) ELSE FAdd(Head(s), FSum(Tail(s)))

\* np.mean of a non-empty list
FMean(s) == FDiv(FSum(s), Fin(Len(s), 1))

One == Fin(1, 1)
Zero == Fin(0, 1)
MinusOne == Fin(-1, 1)

\* a mutation of Trend: the first rung takes the boundary
Trend_inclusive(avg_change) ==
    IF ~FLess(avg_change, One) /\ avg_change.kind # "nan" THEN "Bullish"
    ELSE IF FGreater(avg_change, Zero) THEN "Slightly Bullish"
    ELSE IF FGreater(avg_change, MinusOne) THEN "Slightly Bearish"
    ELSE "Bearish"

\* the trend ladder
Trend(avg_change) ==
    IF FGreater(avg_change, One) THEN "Bullish"
    ELSE IF FGreater(avg_change, Zero) THEN "Slightly Bullish"
    ELSE IF FGreater(avg_change, MinusOne) THEN "Slightly Bearish"
    ELSE "Bearish"

\* a mutation of InStats: a subsection for every ticker
InStats_always(t, stats) == TRUE

\* if ticker in stats (line 140)
InStats(t, stats) == t \in DOMAIN stats

\* max()/min() of an empty stats.items() raise ValueError
RenderRaises(stats) == DOMAIN stats = {}

NoReport ==
    [best_performer |-> "", worst_performer |-> "", most_volatile |-> "",
     sections |-> <<>>, has_correlation |-> FALSE, pairs |-> <<>>,
     avg_change |-> NaN, trend |-> "", data_points |-> 0]

\* the rendered report, reduced to what it says (the average-volatility
\* line is a sum of square roots and is left out)
generate_markdown_report(df, stats, correlations, tickers) ==
    LET items == StatsItems(stats, tickers)
        pct == [i \in 1..Len(items) |-> stats[items[i]].pct_change]
        vol == [i \in 1..Len(items) |-> stats[items[i]].volatility]
        avg == FMean(pct)
    IN [best_performer |-> items[PyArgMax(pct, 2, 1)],
        worst_performer |-> items[PyArgMin(pct, 2, 1)],
        most_volatile |-> items[PyArgMax(vol, 2, 1)],
        sections |-> SelectSeq(tickers, LAMBDA t : InStats(t, stats)),
        has_correlation |-> ~correlations.is_none,
        pairs |-> IF correlations.is_none THEN <<>>
                  ELSE SelectSeq(
                         [k \in 1..(Len(tickers) * Len(tickers)) |->
                            <<tickers[((k - 1) \div Len(tickers)) + 1],
                              tickers[((k - 1) % Len(tickers)) + 1]>>],
                         LAMBDA p : \E i, j \in 1..Len(tickers) :
                                       i < j /\ p = <<tickers[i], tickers[j]>>),
        avg_change |-> avg,
        trend |-> Trend(avg),
        data_points |-> Len(df)]

\* ------------------------------------------------- the analyzer's process
VARIABLES
    watch_mode,        \* '--watch' in sys.argv
    csv,               \* the file at csv_filename
    pc,                \* where the analyzer is
    now,               \* the wall clock, in seconds
    current_size,      \* locals of the watch loop
    current_time,
    last_size,
    last_report_time,
    analysis,          \* what the last analyze_data returned
    report,            \* what the last generate_markdown_report returned
    outcome,           \* how the last generate_report_once ended
    report_files,      \* number of reports/market_analysis_*.md written
    genTimes,          \* history: current_time of every poll that started a report
    growths,           \* history: appends inside the running interval
    triggerGrowths,    \* history: growths consumed by the last triggering poll
    \* the report watcher's process (ai_watch_report.py)
    folder_exists,     \* os.path.exists(reports_folder)
    folder,            \* file name -> modification time, 0 when there is no such file
    w_watch_mode,      \* '--watch' in sys.argv
    wpc,               \* where the watcher is
    processed_reports, \* the set of the watch loop
    ai_files,          \* the files written to ai_analysis/, oldest first
    lifetime,          \* history: number of process starts
    polls,             \* history: loop passes of this process, saturating
    processCount,      \* history: process_report calls per path in this process
    processedBefore,   \* history: paths processed by earlier processes
    last_llm,          \* history: how the last LLM call of this process ended
    polled,            \* history: the newest report and its mtime at the last loop pass
    processedMtime,    \* history: mtime each path had when this process processed it
    \* the stream's process (historical_live_stream.py)
    spc,               \* where the stream is
    hist,              \* what stock.history returned for each ticker
    stream_header,     \* the header line of the CSV it writes
    stream_rows,       \* the rows of that CSV, each a list of fields
    n_hist,            \* len(historical_df)
    iteration          \* the counter of the live loop

aVars == <<watch_mode, csv, pc, now, current_size, current_time, last_size,
           last_report_time, analysis, report, outcome, report_files,
           genTimes, growths, triggerGrowths>>

wVars == <<folder_exists, folder, w_watch_mode, wpc, processed_reports, ai_files,
           lifetime, polls, processCount, processedBefore, last_llm,
           polled, processedMtime>>

sVars == <<spc, hist, stream_header, stream_rows, n_hist, iteration>>

vars == <<aVars, wVars, sVars>>

report_interval == 60
poll_sleep == 10
GenDurations == {0, 5}        \* seconds one report generation can take

NoFile == [kind |-> "absent", cols |-> <<>>, rows |-> <<>>]
EmptyFile == [kind |-> "empty", cols |-> <<>>, rows |-> <<>>]
Table(cols, rows) == [kind |-> "table", cols |-> cols, rows |-> rows]

\* the headers of a watched file: no price column, or one for every symbol
WatchedColumnSets == {<<>>, Symbols}

\* the rows the stream appends while the file is watched
LiveRows(cols) ==
    {[timestamp |-> 2, price |-> [c \in Range(cols) |-> v]] : v \in {Missing, 100}}

\* os.path.getsize: the header line and every row count one unit, a file of
\* zero bytes has size 0
getsize(f) == IF f.kind = "table" THEN 1 + Len(f.rows) ELSE 0

NoAnalysis ==
    [df |-> <<>>, stats |-> <<>>,
     correlations |-> [is_none |-> TRUE, used |-> <<>>, matrix |-> <<>>],
     tickers |-> <<>>]

AInit ==
    /\ watch_mode \in BOOLEAN
    /\ \/ csv \in {NoFile, EmptyFile}
       \/ \E cols \in (IF watch_mode THEN WatchedColumnSets ELSE ColumnSets) :
             \E k \in 0..(IF watch_mode THEN 1 ELSE MaxRows) :
               \E rows \in [1..k -> IF watch_mode THEN LiveRows(cols) ELSE RowSet(cols)] :
                 csv = Table(cols, rows)
    /\ pc = "start"
    /\ now = Epoch
    /\ current_size = 0
    /\ current_time = 0
    /\ last_size = 0
    /\ last_report_time = 0
    /\ analysis = NoAnalysis
    /\ report = NoReport
    /\ outcome = "none"
    /\ report_files = 0
    /\ genTimes = <<>>
    /\ growths = 0
    /\ triggerGrowths = 0

\* lines 45-54 and 261-268: the path check, then the mode
Startup ==
    /\ pc = "start"
    /\ pc' = IF csv.kind = "absent" THEN "exit_error"
             ELSE IF watch_mode THEN "poll" ELSE "generate"
    /\ UNCHANGED <<watch_mode, csv, now, current_size, current_time, last_size,
                   last_report_time, analysis, report, outcome, report_files,
                   genTimes, growths, triggerGrowths>>
    /\ UNCHANGED wVars
    /\ UNCHANGED sVars

\* a mutation of ShouldReport: the interval test is lost
ShouldReport_any_growth(size, lsize, time, ltime) == size > lsize

\* current_size > last_size and (current_time - last_report_time) >= report_interval
ShouldReport(size, lsize, time, ltime) ==
    size > lsize /\ (time - ltime) >= report_interval

\* one pass of the watch loop up to the decision (lines 272-276);
\* os.path.getsize raises OSError when the file is gone
Poll ==
    /\ pc = "poll"
    /\ current_time' = now
    /\ IF csv.kind = "absent"
       THEN /\ pc' = "crashed"
            /\ UNCHANGED <<current_size, genTimes, growths, triggerGrowths>>
       ELSE /\ current_size' = getsize(csv)
            /\ IF ShouldReport(getsize(csv), last_size, now, last_report_time)
               THEN /\ pc' = "generate"
                    /\ genTimes' = Append(genTimes, now)
                    /\ triggerGrowths' = growths
                    /\ growths' = 0
               ELSE /\ pc' = "sleep"
                    /\ UNCHANGED <<genTimes, growths, triggerGrowths>>
    /\ UNCHANGED <<watch_mode, csv, now, last_size, last_report_time, analysis,
                   report, outcome, report_files>>
    /\ UNCHANGED wVars
    /\ UNCHANGED sVars

\* a mutation of generate_report_once: the report file is opened for writing
\* before the report is rendered
generate_report_once_open_first(f) ==
    IF f.kind # "table"
    THEN [outcome |-> "read_error", written |-> FALSE, analysis |-> NoAnalysis,
          report |-> NoReport]
    ELSE LET a == analyze_data(f.cols, f.rows)
         IN IF RenderRaises(a.stats)
            THEN [outcome |-> "render_error", written |-> TRUE, analysis |-> a,
                  report |-> NoReport]
            ELSE [outcome |-> "written", written |-> TRUE, analysis |-> a,
                  report |-> generate_markdown_report(a.df, a.stats, a.correlations,
                                                      a.tickers)]

\* generate_report_once (lines 228-258).  read_csv raises on a missing or
\* zero-byte file, max() on an empty stats dict; nothing catches either, so
\* the process dies before open(report_filename, 'w').
generate_report_once(f) ==
    IF f.kind # "table"
    THEN [outcome |-> "read_error", written |-> FALSE, analysis |-> NoAnalysis,
          report |-> NoReport]
    ELSE LET a == analyze_data(f.cols, f.rows)
         IN IF RenderRaises(a.stats)
            THEN [outcome |-> "render_error", written |-> FALSE, analysis |-> a,
                  report |-> NoReport]
            ELSE [outcome |-> "written", written |-> TRUE, analysis |-> a,
                  report |-> generate_markdown_report(a.df, a.stats, a.correlations,
                                                      a.tickers)]

\* the call of generate_report_once: line 293 in one-shot mode, lines 281-284
\* in the watch loop
GenerateReportOnce ==
    /\ pc = "generate"
    /\ \E d \in GenDurations :
        LET r == generate_report_once(csv)
        IN /\ now' = now + d
           /\ outcome' = r.outcome
           /\ analysis' = r.analysis
           /\ report' = r.report
           /\ report_files' = IF r.written THEN report_files + 1 ELSE report_files
           /\ IF r.outcome # "written"
              THEN /\ pc' = "crashed"
                   /\ UNCHANGED <<last_size, last_report_time>>
              ELSE IF watch_mode
              THEN /\ last_size' = current_size
                   /\ last_report_time' = current_time
                   /\ pc' = "sleep"
              ELSE /\ pc' = "done"
                   /\ UNCHANGED <<last_size, last_report_time>>
    /\ UNCHANGED <<watch_mode, csv, current_size, current_time, genTimes, growths,
                   triggerGrowths>>
    /\ UNCHANGED wVars
    /\ UNCHANGED sVars

\* time.sleep(10), line 286
Sleep ==
    /\ pc = "sleep"
    /\ now + poll_sleep <= MaxClock
    /\ now' = now + poll_sleep
    /\ pc' = "poll"
    /\ UNCHANGED <<watch_mode, csv, current_size, current_time, last_size,
                   last_report_time, analysis, report, outcome, report_files,
                   genTimes, growths, triggerGrowths>>
    /\ UNCHANGED wVars
    /\ UNCHANGED sVars

Watching == watch_mode /\ pc \in {"poll", "generate", "sleep"}

\* the stream appends a live row (historical_live_stream.py lines 142-145)
AppendRow ==
    /\ Watching
    /\ csv.kind = "table"
    /\ Len(csv.rows) < MaxFileRows
    /\ \E r \in LiveRows(csv.cols) : csv' = [csv EXCEPT !.rows = Append(@, r)]
    /\ growths' = IF genTimes # <<>> /\ now - genTimes[Len(genTimes)] < report_interval
                       /\ growths < MaxGrowths
                  THEN growths + 1 ELSE growths
    /\ UNCHANGED <<watch_mode, pc, now, current_size, current_time, last_size,
                   last_report_time, analysis, report, outcome, report_files,
                   genTimes, triggerGrowths>>
    /\ UNCHANGED wVars
    /\ UNCHANGED sVars

\* the file is replaced by one that holds the header only
TruncateFile ==
    /\ Watching
    /\ csv.kind = "table"
    /\ csv.rows # <<>>
    /\ csv' = [csv EXCEPT !.rows = <<>>]
    /\ UNCHANGED <<watch_mode, pc, now, current_size, current_time, last_size,
                   last_report_time, analysis, report, outcome, report_files,
                   genTimes, growths, triggerGrowths>>
    /\ UNCHANGED wVars
    /\ UNCHANGED sVars

\* the file is deleted
RemoveFile ==
    /\ Watching
    /\ csv.kind # "absent"
    /\ csv' = NoFile
    /\ UNCHANGED <<watch_mode, pc, now, current_size, current_time, last_size,
                   last_report_time, analysis, report, outcome, report_files,
                   genTimes, growths, triggerGrowths>>
    /\ UNCHANGED wVars
    /\ UNCHANGED sVars

ANext ==
    \/ Startup
    \/ Poll
    \/ GenerateReportOnce
    \/ Sleep
    \/ AppendRow
    \/ TruncateFile
    \/ RemoveFile

\* ---------------------------------------------- the report watcher's process
MaxMtime == 3         \* modification times run from 1 to here
MaxLifetimes == 2     \* process starts of the watcher

FileNames == {"r1.md", "r2.md", "notes.txt"}

IsMd(f) == f \in {"r1.md", "r2.md"}

ErrorString == "ERROR generating AI insights"

\* get_latest_report: the .md files, newest first; the sort is stable over
\* os.listdir's arbitrary order, so any of the newest can come first
LatestReports(dir) ==
    LET md_files == {f \in FileNames : IsMd(f) /\ dir[f] > 0}
    IN {f \in md_files : \A g \in md_files : dir[g] <= dir[f]}

\* a mutation of generate_ai_insights: the call's exception propagates
generate_ai_insights_uncaught(llm) ==
    IF llm = "raises" THEN [raised |-> TRUE, text |-> ""]
    ELSE [raised |-> FALSE, text |-> "insights"]

\* generate_ai_insights: the call's failure is caught and returned as text
generate_ai_insights(llm) ==
    IF llm = "raises" THEN [raised |-> FALSE, text |-> ErrorString]
    ELSE [raised |-> FALSE, text |-> "insights"]

\* a mutation of IsNew: the membership test is lost
IsNew_always(latest, processed) == TRUE

\* latest_report and latest_report not in processed_reports
IsNew(latest, processed) == latest \notin processed

\* processed_reports.add(latest_report)
AddProcessed(processed, latest) == processed \cup {latest}

\* no loop pass has looked at the folder yet, or it held no report
NothingPolled == [file |-> "", mtime |-> 0]

WIdle ==
    /\ folder_exists = TRUE
    /\ folder = [f \in FileNames |-> 0]
    /\ w_watch_mode = TRUE
    /\ wpc = "idle"
    /\ processed_reports = {}
    /\ ai_files = <<>>
    /\ lifetime = 0
    /\ polls = 0
    /\ processCount = [f \in FileNames |-> 0]
    /\ processedBefore = {}
    /\ last_llm = "none"
    /\ polled = NothingPolled
    /\ processedMtime = [f \in FileNames |-> 0]

AIdle ==
    /\ watch_mode = FALSE
    /\ csv = NoFile
    /\ pc = "idle"
    /\ now = Epoch
    /\ current_size = 0
    /\ current_time = 0
    /\ last_size = 0
    /\ last_report_time = 0
    /\ analysis = NoAnalysis
    /\ report = NoReport
    /\ outcome = "none"
    /\ report_files = 0
    /\ genTimes = <<>>
    /\ growths = 0
    /\ triggerGrowths = 0

WInit ==
    /\ folder_exists \in BOOLEAN
    /\ folder \in [FileNames -> 0..1]
    /\ w_watch_mode \in BOOLEAN
    /\ wpc = "start"
    /\ processed_reports = {}
    /\ ai_files = <<>>
    /\ lifetime = 1
    /\ polls = 0
    /\ processCount = [f \in FileNames |-> 0]
    /\ processedBefore = {}
    /\ last_llm = "none"
    /\ polled = NothingPolled
    /\ processedMtime = [f \in FileNames |-> 0]

\* lines 55-64 and 204-209: the folder check, then the mode
WatcherStartup ==
    /\ wpc = "start"
    /\ wpc' = IF ~folder_exists THEN "exit_error"
              ELSE IF w_watch_mode THEN "poll" ELSE "once"
    /\ processed_reports' = {}
    /\ UNCHANGED <<folder_exists, folder, w_watch_mode, ai_files, lifetime, polls,
                   processCount, processedBefore, last_llm, polled, processedMtime>>
    /\ UNCHANGED aVars
    /\ UNCHANGED sVars

\* process_report (lines 162-201) on one report with one LLM outcome:
\* the insights file it writes, or a propagated exception
ProcessReport(latest, llm) ==
    LET insights == generate_ai_insights(llm)
    IN [raised |-> insights.raised,
        file |-> [source |-> latest, body |-> insights.text]]

\* one pass of the watch loop, lines 213-225
WatcherPoll ==
    /\ wpc = "poll"
    /\ polls' = IF polls < 2 THEN polls + 1 ELSE polls
    /\ IF LatestReports(folder) = {}
       THEN /\ polled' = NothingPolled
            /\ UNCHANGED <<wpc, processed_reports, ai_files, processCount, last_llm,
                           processedMtime>>
       ELSE \E latest \in LatestReports(folder), llm \in {"ok", "raises"} :
            /\ polled' = [file |-> latest, mtime |-> folder[latest]]
            /\ IF IsNew(latest, processed_reports)
              THEN LET r == ProcessReport(latest, llm)
                   IN /\ last_llm' = llm
                      /\ processCount' = [processCount EXCEPT ![latest] = @ + 1]
                      /\ processedMtime' = [processedMtime EXCEPT ![latest] = folder[latest]]
                      /\ IF r.raised
                         THEN /\ wpc' = "crashed"
                              /\ UNCHANGED <<processed_reports, ai_files>>
                         ELSE /\ ai_files' = Append(ai_files, r.file)
                              /\ processed_reports' = AddProcessed(processed_reports, latest)
                              /\ UNCHANGED wpc
              ELSE UNCHANGED <<wpc, processed_reports, ai_files, processCount, last_llm,
                               processedMtime>>
    /\ UNCHANGED <<folder_exists, folder, w_watch_mode, lifetime, processedBefore>>
    /\ UNCHANGED aVars
    /\ UNCHANGED sVars

\* the one-shot run, lines 231-239
WatcherOnce ==
    /\ wpc = "once"
    /\ IF LatestReports(folder) = {}
       THEN /\ wpc' = "done"
            /\ UNCHANGED <<ai_files, processCount, last_llm>>
       ELSE \E latest \in LatestReports(folder), llm \in {"ok", "raises"} :
              LET r == ProcessReport(latest, llm)
              IN /\ last_llm' = llm
                 /\ processCount' = [processCount EXCEPT ![latest] = @ + 1]
                 /\ IF r.raised
                    THEN /\ wpc' = "crashed"
                         /\ UNCHANGED ai_files
                    ELSE /\ ai_files' = Append(ai_files, r.file)
                         /\ wpc' = "done"
    /\ UNCHANGED <<folder_exists, folder, w_watch_mode, processed_reports, lifetime,
                   polls, processedBefore, polled, processedMtime>>
    /\ UNCHANGED aVars
    /\ UNCHANGED sVars

\* the process is stopped and started again, in watch mode
Restart ==
    /\ wpc \in {"poll", "crashed", "done"}
    /\ lifetime < MaxLifetimes
    /\ lifetime' = lifetime + 1
    /\ wpc' = "start"
    /\ w_watch_mode' = TRUE
    /\ processed_reports' = {}
    /\ polls' = 0
    /\ processCount' = [f \in FileNames |-> 0]
    /\ processedBefore' = processedBefore \cup {f \in FileNames : processCount[f] > 0}
    /\ last_llm' = "none"
    /\ polled' = NothingPolled
    /\ processedMtime' = [f \in FileNames |-> 0]
    /\ UNCHANGED <<folder_exists, folder, ai_files>>
    /\ UNCHANGED aVars
    /\ UNCHANGED sVars

NewestMtime(dir) == CHOOSE m \in 0..MaxMtime : (\E f \in FileNames : dir[f] = m)
                                                /\ \A f \in FileNames : dir[f] <= m

\* a file is created in the folder, or written again: its modification time
\* is the newest of the folder or later
WriteFile ==
    /\ folder_exists
    /\ \E f \in FileNames, m \in 1..MaxMtime :
        /\ m >= NewestMtime(folder)
        /\ m # folder[f]
        /\ folder' = [folder EXCEPT ![f] = m]
    /\ UNCHANGED <<folder_exists, w_watch_mode, wpc, processed_reports, ai_files,
                   lifetime, polls, processCount, processedBefore, last_llm,
                   polled, processedMtime>>
    /\ UNCHANGED aVars
    /\ UNCHANGED sVars

\* ------------------------------------------------------ the stream's process
MaxLive == 2          \* live updates the stream appends

TICKERS == <<"AAPL", "MSFT", "GOOGL">>

HistDays == {1, 2}    \* the trading days a history can cover

Close == 100          \* hist['Close'] of a day the ticker has

LiveTime == 3         \* datetime.now() of a live pass, after every historical day

\* what a live fetch leaves in prices[ticker]: None (an exception, no price,
\* or a falsy price) or the price
LivePrices == {Missing, 101}

\* f'{ticker}_price'
PriceColumn(t) ==
    CASE t = "AAPL" -> "AAPL_price"
      [] t = "MSFT" -> "MSFT_price"
      [] t = "GOOGL" -> "GOOGL_price"

\* one download: an exception, an empty frame, or closes for some days
HistOutcomes ==
    {[status |-> "error", days |-> {}], [status |-> "empty", days |-> {}]}
        \cup {[status |-> "data", days |-> d] : d \in (SUBSET HistDays) \ {{}}}

\* a field of a CSV row and the column its value was taken for
Field(column, value) == [of |-> column, value |-> value]

SIdle ==
    /\ spc = "idle"
    /\ hist = [t \in Range(TICKERS) |-> [status |-> "error", days |-> {}]]
    /\ stream_header = <<>>
    /\ stream_rows = <<>>
    /\ n_hist = 0
    /\ iteration = 0

SInit ==
    /\ spc = "download"
    /\ hist = [t \in Range(TICKERS) |-> [status |-> "error", days |-> {}]]
    /\ stream_header = <<>>
    /\ stream_rows = <<>>
    /\ n_hist = 0
    /\ iteration = 0

\* all_data: the tickers whose download gave rows, in TICKERS order
Downloaded(h) == SelectSeq(TICKERS, LAMBDA t : h[t].status = "data")

\* cols: timestamp, iteration, then the price columns of merged_data
MergedColumns(h) ==
    <<"timestamp", "iteration">> \o
        [i \in 1..Len(Downloaded(h)) |-> PriceColumn(Downloaded(h)[i])]

\* the outer merge on timestamp, sorted: one row per day of any history,
\* numbered from 1, a close of 100 where the ticker has that day
MergedRows(h) ==
    LET got == Downloaded(h)
        days == UNION {h[t].days : t \in Range(got)}
        order == SortSeq([i \in 1..Cardinality(days) |->
                            CHOOSE d \in days : Cardinality({e \in days : e < d}) = i - 1], <)
    IN [k \in 1..Len(order) |->
          <<Field("timestamp", order[k]), Field("iteration", k)>> \o
              [i \in 1..Len(got) |->
                  Field(PriceColumn(got[i]),
                        IF order[k] \in h[got[i]].days THEN Close ELSE Missing)]]

\* download_historical_data and the to_csv that follows (lines 50-105 and 115)
Download ==
    /\ spc = "download"
    /\ \E h \in [Range(TICKERS) -> HistOutcomes] :
        /\ hist' = h
        /\ IF Downloaded(h) = <<>>
           THEN /\ spc' = "exit_error"
                /\ UNCHANGED <<stream_header, stream_rows, n_hist, iteration>>
           ELSE /\ spc' = "live"
                /\ stream_header' = MergedColumns(h)
                /\ stream_rows' = MergedRows(h)
                /\ n_hist' = Len(MergedRows(h))
                /\ iteration' = Len(MergedRows(h)) + 1
    /\ UNCHANGED aVars
    /\ UNCHANGED wVars

\* row = [current_time, iteration] + [prices.get(t) for t in TICKERS]
LiveRow(time, iter, prices) ==
    <<Field("timestamp", time), Field("iteration", iter)>> \o
        [i \in 1..Len(TICKERS) |-> Field(PriceColumn(TICKERS[i]), prices[TICKERS[i]])]

\* one pass of the live loop (lines 118-151): a fetch that fails or gives no
\* price leaves None, written as an empty cell
LiveUpdate ==
    /\ spc = "live"
    /\ iteration - n_hist <= MaxLive
    /\ \E prices \in [Range(TICKERS) -> LivePrices] :
        stream_rows' = Append(stream_rows, LiveRow(LiveTime, iteration, prices))
    /\ iteration' = iteration + 1
    /\ UNCHANGED <<spc, hist, stream_header, n_hist>>
    /\ UNCHANGED aVars
    /\ UNCHANGED wVars

SNext ==
    \/ Download
    \/ LiveUpdate

WNext ==
    \/ WatcherStartup
    \/ WatcherPoll
    \/ WatcherOnce
    \/ Restart
    \/ WriteFile

\* the analyzer runs, the watcher is not started
Init == AInit /\ WIdle /\ SIdle

Spec == Init /\ [][ANext]_vars

\* the watcher runs, the analyzer is not started
WatcherInit == WInit /\ AIdle /\ SIdle

SpecWatcher == WatcherInit /\ [][WNext]_vars

\* the stream runs, the analyzer and the watcher are not started
StreamInit == SInit /\ AIdle /\ WIdle

SpecStream == StreamInit /\ [][SNext]_vars

\* ===================================================================== claims

Last(s) == s[Len(s)]

\* the polls that started a report lie report_interval apart, and each
\* report file comes from one of them
C1_Spaced ==
    /\ \A i, j \in 1..Len(genTimes) :
         i < j => genTimes[j] - genTimes[i] >= report_interval
    /\ report_files <= Len(genTimes)

\* a poll starts a report exactly when it sees growth at or past the interval
C1_Trigger ==
    (pc = "poll" /\ pc' # "poll" /\ csv.kind # "absent") =>
        /\ (pc' = "generate") <=>
             (/\ getsize(csv) > last_size
              /\ (genTimes = <<>> \/ now - Last(genTimes) >= report_interval))
        /\ pc' = "generate" => genTimes' = Append(genTimes, now)
        /\ pc' # "generate" => genTimes' = genTimes

\* C1: in the analyzer's watch loop a report generation starts exactly at the
\* polls that see the file larger than at the last report and at least
\* report_interval after the start of the previous generation; so any two
\* generations start at least report_interval apart, and growth that happens
\* twice inside one interval yields one report, at the first such poll.
C1_OneReportPerInterval == [](watch_mode => C1_Spaced) /\ [][watch_mode => C1_Trigger]_vars

\* two reports were written, and the file grew twice between the polls that
\* started them, inside the interval after the first
C1_Witness ==
    /\ watch_mode
    /\ Len(genTimes) >= 2
    /\ report_files >= 2
    /\ triggerGrowths >= 2
    /\ pc = "sleep"

\* an input the analyzer cannot report on: no file, no bytes, or no price in
\* any price column (which covers no rows and no price columns)
FatalInput(f) ==
    \/ f.kind # "table"
    \/ \A c \in Range(f.cols) : \A i \in 1..Len(f.rows) : f.rows[i].price[c] = Missing

\* a step taken on a fatal input writes no report file and ends the run
\* where the code reads the file
C3_Step ==
    FatalInput(csv) =>
        /\ report_files' = report_files
        /\ (pc = "generate" /\ pc' # pc) => pc' = "crashed"
        /\ (pc = "start" /\ pc' # pc /\ csv.kind = "absent") => pc' = "exit_error"
        /\ (pc = "poll" /\ pc' # pc /\ csv.kind = "absent") => pc' = "crashed"

\* C3: on a fatal input (missing file, empty or price-less table) the run
\* ends without writing a report file: the path check exits, and every
\* generation or poll that meets such an input dies with the number of
\* report files unchanged, in one-shot mode and at any tick of watch mode.
C3_FatalWritesNothing ==
    /\ []((~watch_mode /\ pc \in {"exit_error", "crashed"}) => report_files = 0)
    /\ [](pc = "done" => (outcome = "written" /\ ~FatalInput(csv)))
    /\ [][C3_Step]_vars

\* a watch tick met a fatal input after an earlier tick had written a report
C3_Witness ==
    /\ watch_mode
    /\ pc = "crashed"
    /\ outcome = "render_error"
    /\ FatalInput(csv)
    /\ report_files = 1

\* the last generate_report_once got as far as analyze_data's return
Analysed == outcome \in {"render_error", "written"}

\* rows of df that hold a price of t
Present(df, t) == {i \in 1..Len(df) : df[i].price[t] # Missing}

\* the price of t in the row that comes last when the rows are put in
\* ascending timestamp order (rows of equal timestamp keep their file order)
LastByTimestamp(df, t) ==
    LET i == CHOOSE k \in Present(df, t) :
                \A m \in Present(df, t) :
                    \/ df[m].timestamp < df[k].timestamp
                    \/ (df[m].timestamp = df[k].timestamp /\ m <= k)
    IN df[i].price[t]

\* C5: for every symbol with at least one price, current is the last
\* non-missing price in ascending timestamp order, also when the rows of the
\* file are not stored in that order.
C5_CurrentIsLatest ==
    Analysed =>
        \A t \in DOMAIN analysis.stats :
            analysis.stats[t].current = LastByTimestamp(analysis.df, t)

\* the first and the last price of t in file order
FirstPrice(df, t) == df[CHOOSE k \in Present(df, t) : \A m \in Present(df, t) : k <= m].price[t]
LastPrice(df, t) == df[CHOOSE k \in Present(df, t) : \A m \in Present(df, t) : m <= k].price[t]

\* C6: percent_change is NaN exactly when the first price is 0 and is
\* (last - first) / first * 100 otherwise; a zero first price or a zero mean
\* gives NaN, never an error and never another value.
C6_GuardedDivision ==
    Analysed =>
        \A t \in DOMAIN analysis.stats :
            LET st == analysis.stats[t]
                first == FirstPrice(analysis.df, t)
                last == LastPrice(analysis.df, t)
            IN /\ (st.pct_change.kind = "nan") <=> (first = 0)
               /\ first # 0 =>
                    /\ st.pct_change.kind = "fin"
                    /\ st.pct_change.n * first = (last - first) * 100 * st.pct_change.d
               /\ st.mean.n = 0 => st.volatility.kind = "nan"
               /\ st.pct_change.kind \notin {"inf", "-inf"}
               /\ st.volatility.kind \notin {"inf", "-inf"}

\* indices of the rows in which every price column holds a price
CompleteIdx(df, tickers) ==
    {i \in 1..Len(df) : \A c \in Range(tickers) : df[i].price[c] # Missing}

\* C7: correlations are computed over the complete rows only; with fewer
\* than 2 complete rows there is no correlation matrix, the analysis still
\* returns, and a run with a non-empty stats map writes its report without a
\* correlation section.
C7_CompleteCaseCorrelation ==
    Analysed =>
        LET df == analysis.df
            cc == CompleteIdx(df, analysis.tickers)
            cor == analysis.correlations
        IN /\ Cardinality(cc) < 2 =>
                /\ cor.is_none
                /\ (DOMAIN analysis.stats # {}) =>
                      (outcome = "written" /\ ~report.has_correlation /\ report.pairs = <<>>)
           /\ Cardinality(cc) >= 2 =>
                /\ ~cor.is_none
                /\ Len(cor.used) = Cardinality(cc)
                /\ \A i \in 1..Len(cor.used) :
                      \E k \in cc : cor.used[i] = df[k]
                /\ \A a, b \in Range(analysis.tickers) :
                      cor.matrix[<<a, b>>] =
                          Pearson(dropna(cor.used, a), dropna(cor.used, b))
                /\ outcome = "written" => report.has_correlation

\* the scenario of the specification: A and B both have stats, one row holds
\* both prices, the report is written without correlations
C7_Witness ==
    /\ outcome = "written"
    /\ DOMAIN analysis.stats = {"A", "B"}
    /\ Cardinality(CompleteIdx(analysis.df, analysis.tickers)) = 1
    /\ Len(analysis.df) >= 2
    /\ analysis.correlations.is_none

\* C8: a symbol is in the stats map exactly when its column holds at least
\* one price, and the written report has one metrics subsection for each
\* symbol of the stats map and for no other.
C8_StatsAndSections ==
    Analysed =>
        /\ \A t \in Range(analysis.tickers) :
              (t \in DOMAIN analysis.stats) <=> (Present(analysis.df, t) # {})
        /\ DOMAIN analysis.stats \subseteq Range(analysis.tickers)
        /\ outcome = "written" =>
              /\ Range(report.sections) = DOMAIN analysis.stats
              /\ Len(report.sections) = Cardinality(DOMAIN analysis.stats)

\* a report was written for a table in which B never has a price
C8_Witness ==
    /\ outcome = "written"
    /\ analysis.tickers = <<"A", "B">>
    /\ Present(analysis.df, "B") = {}
    /\ report.sections = <<"A">>

TrendClasses == {"Bullish", "Slightly Bullish", "Slightly Bearish", "Bearish"}

\* C9: the trend is one class for every mean percent-change: above 1
\* Bullish, in (0,1] Slightly Bullish, in (-1,0] Slightly Bearish, at or
\* below -1 Bearish, the boundaries 1, 0 and -1 included.
C9_TrendLadder ==
    outcome = "written" =>
        LET avg == report.avg_change
        IN /\ report.trend \in TrendClasses
           /\ avg = FMean([i \in 1..Len(report.sections) |->
                             analysis.stats[report.sections[i]].pct_change])
           /\ avg.kind = "inf" => report.trend = "Bullish"
           /\ avg.kind = "-inf" => report.trend = "Bearish"
           /\ avg.kind = "fin" =>
                /\ avg.n > avg.d => report.trend = "Bullish"
                /\ (avg.n > 0 /\ avg.n <= avg.d) => report.trend = "Slightly Bullish"
                /\ (avg.n > -avg.d /\ avg.n <= 0) => report.trend = "Slightly Bearish"
                /\ avg.n <= -avg.d => report.trend = "Bearish"

\* the mean is exactly 1, the boundary of Bullish
C9_Witness ==
    /\ outcome = "written"
    /\ report.avg_change = One
    /\ report.trend = "Slightly Bullish"
    /\ Len(report.sections) = 2

\* the first position of keys that holds the greatest (sign = 1) or the
\* least (sign = -1) of the values that are numbers
IsFirstExtreme(keys, chosen, sign) ==
    LET nums == {i \in 1..Len(keys) : keys[i].kind # "nan"}
        Before(x, y) == IF sign = 1 THEN FLess(x, y) ELSE FLess(y, x)
    IN nums # {} =>
         /\ chosen \in nums
         /\ \A i \in nums : ~Before(keys[chosen], keys[i])
         /\ \A i \in nums : i < chosen => Before(keys[i], keys[chosen])

IndexOf(seq, x) == CHOOSE i \in 1..Len(seq) : seq[i] = x

\* C10: best performer is the symbol of maximum percent-change, worst
\* performer the symbol of minimum percent-change, most volatile the symbol
\* of maximum volatility, the first in column order among equals.
C10_Performers ==
    outcome = "written" =>
        LET items == report.sections
            pct == [i \in 1..Len(items) |-> analysis.stats[items[i]].pct_change]
            vol == [i \in 1..Len(items) |-> analysis.stats[items[i]].volatility]
        IN /\ IsFirstExtreme(pct, IndexOf(items, report.best_performer), 1)
           /\ IsFirstExtreme(pct, IndexOf(items, report.worst_performer), -1)
           /\ IsFirstExtreme(vol, IndexOf(items, report.most_volatile), 1)

\* the pass of the loop in which the LLM call raises
C2_Step ==
    (wpc = "poll" /\ last_llm' = "raises" /\ polls' # 0
        /\ <<processCount', ai_files'>> # <<processCount, ai_files>>) =>
        /\ wpc' = "poll"
        /\ Len(ai_files') = Len(ai_files) + 1
        /\ Last(ai_files').body = ErrorString
        /\ Last(ai_files').source \in LatestReports(folder)
        /\ Last(ai_files').source \notin processed_reports
        /\ processed_reports' = processed_reports \cup {Last(ai_files').source}

\* C2: when the LLM call raises, generate_ai_insights returns the error
\* text, process_report writes an insights file with that text as its body,
\* the report joins the processed set and the watch loop goes on polling.
C2_LlmFailureIsEmbedded ==
    /\ [](wpc # "crashed")
    /\ []((last_llm = "raises" /\ w_watch_mode) =>
             (wpc = "poll" /\ ai_files # <<>> /\ Last(ai_files).body = ErrorString
                /\ Last(ai_files).source \in processed_reports))
    /\ [][C2_Step]_vars

\* the call failed for one report, and the loop has since processed another
C2_Witness ==
    /\ wpc = "poll"
    /\ Len(ai_files) = 2
    /\ ai_files[1].body = ErrorString
    /\ ai_files[2].body = "insights"
    /\ ai_files[1].source # ai_files[2].source
    /\ processed_reports = {"r1.md", "r2.md"}
    /\ lifetime = 1

\* the set grows within a process, and the first pass of a process
\* processes the newest report
C4_Step ==
    /\ lifetime' = lifetime => processed_reports \subseteq processed_reports'
    /\ (wpc = "poll" /\ polls = 0 /\ polls' = 1 /\ LatestReports(folder) # {}) =>
          /\ Len(ai_files') = Len(ai_files) + 1
          /\ Last(ai_files').source \in LatestReports(folder)
          /\ processed_reports' = {Last(ai_files').source}

C11_NewAndUpdatedProcessed ==
    (w_watch_mode /\ wpc = "poll" /\ polled.file # "") =>
        processedMtime[polled.file] = polled.mtime

\* C12: every row the live loop appends has as many fields as the header,
\* and each of its fields holds the value of the column the header names at
\* that position, whatever the downloads and the live fetches returned.
C12_LiveRowsMatchHeader ==
    spc = "live" =>
        \A k \in (n_hist + 1)..Len(stream_rows) :
            /\ Len(stream_rows[k]) = Len(stream_header)
            /\ \A i \in 1..Len(stream_rows[k]) :
                  i <= Len(stream_header) => stream_rows[k][i].of = stream_header[i]

\* C13: every change of the CSV is eventually reported by the watch loop. A
\* pass that finds the interval elapsed and an analysable file whose size
\* differs from last_size, and whose rows are not those of the last report,
\* starts a generation: while the file stays as it
\* is every later pass reads the same size against the same last_size, so a
\* pass that starts none means no report is ever made from the changed
\* file. And last_size after a report is the size read by the pass that
\* triggered it, so that growth during the generation is seen afterwards.
C13_Step ==
    /\ (/\ watch_mode /\ pc = "poll" /\ pc' # pc
        /\ ~FatalInput(csv)
        /\ analysis.df # csv.rows
        /\ current_size' # last_size
        /\ current_time' - last_report_time >= report_interval) => pc' = "generate"
    /\ (watch_mode /\ pc = "generate" /\ pc' = "sleep") => last_size' = current_size

C13_EveryChangeReported == [][C13_Step]_vars

====
